---- MODULE Spec2Model ----
(***************************************************************************)
(* The timeline / playback engine of the vimagine editor:                   *)
(*   MainEditorPage  (src/app/main/projects/page.tsx)       timeline state  *)
(*   Timeline        (src/frontend/app/main/components/Timeline.tsx)        *)
(*   VideoPreview    (src/unnamed/part_001)                 playback clock  *)
(*                                                                         *)
(* Time is an integer number of units of 1/(100 * AvailableWidth) second,   *)
(* so that the pixel-to-time mapping  x / availableWidth * duration  and    *)
(* the roundings to 0.01 s and 0.1 s are exact.                              *)
(***************************************************************************)
EXTENDS Integers, Sequences, FiniteSets, TLC

\* ------------------------------------------------------------------ bounds
MaxSteps == 6          \* handler runs in one behaviour
MaxClickTimers == 1    \* delayed scrub-end timers pending at once

\* ------------------------------------------------------------- time units
AvailableWidth == 600            \* rect.width - TRACK_LABELS_WIDTH, in pixels
TRACK_LABELS_WIDTH == 80
Cs == AvailableWidth             \* 0.01 s
Tenth == 10 * Cs                 \* 0.1 s
Sec == 100 * Cs                  \* 1 s

TimelineFloor == 60 * Sec        \* "Minimum 60 seconds"
TimelineDuration == 60 * Sec     \* const timelineDuration = 60 of the trim drag
MinClipDuration == 50 * Cs       \* the 0.5 of Math.max(0.5, ...)
TickStep == Tenth                \* prevTime + 0.1
EndTolerance == Tenth            \* Math.abs(currentTime - timelineEnd) <= 0.1
SkipStep == 5 * Sec              \* currentTime -+ 5
ImageDuration == 5 * Sec
VideoFallback == 10 * Sec
AudioFallback == 15 * Sec

\* ------------------------------------------------------------ input sets
MediaTypes == {"video", "image", "audio"}
\* raw element.duration read by the probe (0 stands for a missing / NaN duration)
VideoRawDurations == {0, 62 * Sec + 44 * (Sec \div 1000)}
\* a video of 3.25 s, read by the probes of the trim specification only
TrimRawDurations == {3 * Sec + 25 * Cs}
AudioRawDurations == {0, 8 * Sec}
\* pointer deltas of a trim drag, in pixels
ResizeDeltaXs == {-700, 1, 700}
\* pointer positions (clientX - rect.left) of playhead drags and ruler clicks
PointerXs == {40, 129, 131, 700}
\* native currentTime of the playing video element read by a tick
NativeTimes == {2 * Sec, 70 * Sec}

\* a configuration with two tracks for visual media
TwoVisualTracks == <<0, 1>>

\* ------------------------------------------------------- track configuration
VIDEO_IMAGE_TRACKS == <<0>>
AUDIO_TRACKS == <<1>>
TOTAL_TRACKS == 2

NoItem == [id |-> 0]
NoResize == [itemId |-> 0]

Min(a, b) == IF a < b THEN a ELSE b
Max(a, b) == IF a > b THEN a ELSE b
Abs(a) == IF a < 0 THEN 0 - a ELSE a
Range(s) == {s[i] : i \in 1..Len(s)}
Includes(s, x) == \E i \in 1..Len(s) : s[i] = x

\* Math.round(v * 100) / 100 and Math.round(v * 10) / 10 (halves go up)
RoundTo(v, step) == ((2 * v + step) \div (2 * step)) * step
Round2(v) == RoundTo(v, Cs)
Round1(v) == RoundTo(v, Tenth)

VARIABLES
  timelineItems,      \* page.tsx: useState<TimelineItem[]>
  pendingAdds,        \* addToTimeline calls awaiting getMediaDuration
  isPlaying,          \* page.tsx: isPlaying
  currentTime,        \* page.tsx: currentTime (virtual time)
  isScrubbing,        \* page.tsx: isScrubbing
  totalDuration,      \* VideoPreview: totalDuration
  currentVisualItem,  \* VideoPreview: currentVisualItem
  currentAudioItem,   \* VideoPreview: currentAudioItem
  resizing,           \* Timeline: resizing
  draggingPlayhead,   \* Timeline: draggingPlayhead
  clickTimers,        \* Timeline: pending setTimeout(..., 100) of ruler clicks
  nextId,             \* the next `timeline-${Date.now()}-${Math.random()}` id
  steps,              \* handler runs so far (bounded by MaxSteps)
  lastOp,             \* the last handler that ran, with its inputs
  mediaResponds,      \* whether probed media elements ever fire an event
  videoElement,       \* VideoPreview: the <video> behind videoRef
  audioElement,       \* VideoPreview: the <audio> behind audioRef
  videoThumbnails,    \* MediaLibrary: videoThumbnails (id, thumbnail) entries
  thumbJob,           \* MediaLibrary: the generateThumbnails loop
  isDownloading,      \* VideoPreview: isDownloading
  isDownloadingFile,  \* VideoPreview: isDownloadingFile
  exports,            \* handleDownload calls in flight
  exportLog,          \* what the export started last has done so far
  mediaLibrary,       \* page.tsx: useState<MediaItem[]>
  generations,        \* generation requests in flight
  deletes,            \* handleDelete calls awaiting the remote delete
  uploads,            \* upload handlers awaiting the blob store
  nextMediaId         \* the next generated / uploaded media id

\* the editor: timeline, playback and pointer interaction
editorVars == <<timelineItems, pendingAdds, isPlaying, currentTime, isScrubbing,
                totalDuration, currentVisualItem, currentAudioItem, resizing,
                draggingPlayhead, clickTimers, nextId, steps>>

exportVars == <<isDownloading, isDownloadingFile, exports, exportLog>>

catalogVars == <<mediaLibrary, generations, deletes, uploads, nextMediaId>>

thumbVars == <<videoThumbnails, thumbJob>>

\* the media elements of the probes, of the preview and of the thumbnails
elementVars == <<mediaResponds, videoElement, audioElement, thumbVars>>

\* what the editor handlers never touch
otherVars == <<elementVars, exportVars, catalogVars>>

vars == <<editorVars, lastOp, otherVars>>

\* what a re-render of VideoPreview settles
rendered == <<timelineItems, currentTime, totalDuration, currentVisualItem,
              currentAudioItem, isPlaying>>

Op(name, kind, arg) == [op |-> name, kind |-> kind, arg |-> arg]

\* ----------------------------------------------------------- TimelineModel
EndTime(item) == item.startTime + item.duration

FilterTrack(items, trackIndex) ==
  SelectSeq(items, LAMBDA item : item.track = trackIndex)

FilterOtherTracks(items, trackIndex) ==
  SelectSeq(items, LAMBDA item : item.track # trackIndex)

RECURSIVE MaxOver(_, _)
\* Math.max(floor, ...items.map(item => item.startTime + item.duration))
MaxOver(floor, items) ==
  IF items = <<>> THEN floor
  ELSE MaxOver(Max(floor, EndTime(Head(items))), Tail(items))

RECURSIVE InsertByStartTime(_, _)
InsertByStartTime(sorted, item) ==
  IF sorted = <<>> THEN <<item>>
  ELSE IF item.startTime < Head(sorted).startTime THEN <<item>> \o sorted
  ELSE <<Head(sorted)>> \o InsertByStartTime(Tail(sorted), item)

RECURSIVE SortByStartTime(_)
\* .sort((a, b) => a.startTime - b.startTime): a stable sort
SortByStartTime(items) ==
  IF items = <<>> THEN <<>>
  ELSE InsertByStartTime(SortByStartTime(SubSeq(items, 1, Len(items) - 1)),
                         items[Len(items)])

\* the occupied end of a track as addToTimeline computes it
TrackEndTime(items, trackIndex) == MaxOver(0, FilterTrack(items, trackIndex))

\* track choice that ignores the media type
AvailableTracksVisualOnly(type) ==
  IF type \in MediaTypes THEN VIDEO_IMAGE_TRACKS ELSE AUDIO_TRACKS

AvailableTracks(type) ==
  IF type = "audio" THEN AUDIO_TRACKS ELSE VIDEO_IMAGE_TRACKS

RECURSIVE BestTrackFrom(_, _, _)
\* trackUsage.reduce((prev, current) => current.endTime < prev.endTime ? current : prev)
BestTrackFrom(items, prev, tracks) ==
  IF tracks = <<>> THEN prev
  ELSE LET current == [track |-> Head(tracks),
                       endTime |-> TrackEndTime(items, Head(tracks))]
       IN BestTrackFrom(items,
                        IF current.endTime < prev.endTime THEN current ELSE prev,
                        Tail(tracks))

BestTrack(items, type) ==
  LET tracks == AvailableTracks(type)
  IN BestTrackFrom(items,
                   [track |-> Head(tracks),
                    endTime |-> TrackEndTime(items, Head(tracks))],
                   Tail(tracks))

NewTimelineItem(id, type, best, duration) ==
  [id |-> id, type |-> type, track |-> best.track,
   startTime |-> best.endTime, duration |-> duration]

RECURSIVE Reposition(_, _)
\* let currentTime = 0; itemsOnSameTrack.map(item => ({...item, startTime: currentTime ...}))
Reposition(items, at) ==
  IF items = <<>> THEN <<>>
  ELSE <<[Head(items) EXCEPT !.startTime = at]>>
       \o Reposition(Tail(items), at + Head(items).duration)

ItemById(items, id) ==
  IF \E i \in 1..Len(items) : items[i].id = id
  THEN items[CHOOSE i \in 1..Len(items) : items[i].id = id]
  ELSE NoItem

\* removal that only filters the clip out and leaves the others in place
RemoveItemKeepPositions(items, timelineItemId) ==
  SelectSeq(items, LAMBDA item : item.id # timelineItemId)

\* removal that closes the gaps of every track, not only of the clip's own
RemoveItemRepositionAll(items, timelineItemId) ==
  Reposition(SortByStartTime(
               SelectSeq(items, LAMBDA item : item.id # timelineItemId)), 0)

RemoveItem(items, timelineItemId) ==
  LET itemToRemove == ItemById(items, timelineItemId)
      remainingItems == SelectSeq(items, LAMBDA item : item.id # timelineItemId)
      itemsOnSameTrack ==
        SortByStartTime(FilterTrack(remainingItems, itemToRemove.track))
      itemsOnOtherTracks == FilterOtherTracks(remainingItems, itemToRemove.track)
  IN IF itemToRemove = NoItem THEN items
     ELSE itemsOnOtherTracks \o Reposition(itemsOnSameTrack, 0)

\* prevItems.map(item => item.id === itemId ? {...item, ...updates} : item)
UpdateItem(items, itemId, newStartTime, newDuration) ==
  [i \in 1..Len(items) |->
     IF items[i].id = itemId
     THEN [items[i] EXCEPT !.startTime = newStartTime, !.duration = newDuration]
     ELSE items[i]]

\* ------------------------------------------------- Timeline (interaction)
CalculateTotalDuration(items) == MaxOver(TimelineFloor, items)

CalculateContentEndTime(items) ==
  IF Len(items) = 0 THEN 0
  ELSE MaxOver(EndTime(Head(items)), Tail(items))

\* getTrackInfo(trackIndex).isAudioTrack
IsAudioTrack(trackIndex) ==
  /\ ~Includes(VIDEO_IMAGE_TRACKS, trackIndex)
  /\ Includes(AUDIO_TRACKS, trackIndex)

\* the drop test without the class check: every drop is accepted
DropAcceptedAnywhere(type, trackIndex) ==
  type \in MediaTypes /\ trackIndex \in 0..(TOTAL_TRACKS - 1)

\* the compatibility test of handleDrop
DropAccepted(type, trackIndex) ==
  LET isAudioItem == type = "audio"
      isVisualItem == type = "image" \/ type = "video"
  IN \/ IsAudioTrack(trackIndex) /\ isAudioItem
     \/ ~IsAudioTrack(trackIndex) /\ isVisualItem

\* pointer position to virtual time, of the playhead drag and the ruler click
PointerToTime(items, pointerX) ==
  LET mouseX == pointerX - TRACK_LABELS_WIDTH
      clampedMouseX == Max(0, Min(AvailableWidth, mouseX))
      calculatedTime ==
        clampedMouseX * (CalculateTotalDuration(items) \div AvailableWidth)
      contentEndTime == CalculateContentEndTime(items)
  IN Max(0, Min(contentEndTime, calculatedTime))

\* deltaTime = (deltaX / containerWidth) * timelineDuration
DeltaTime(deltaX) == deltaX * (TimelineDuration \div AvailableWidth)

ResizeLeft(rs, deltaTime) ==
  LET proposedStartTime == Max(0, rs.originalStartTime + deltaTime)
      timeDiff == proposedStartTime - rs.originalStartTime
  IN [startTime |-> proposedStartTime,
      duration |-> Max(MinClipDuration, rs.originalDuration - timeDiff)]

ResizeRight(rs, deltaTime) ==
  LET newStartTime == rs.originalStartTime
      newDuration == Max(MinClipDuration, rs.originalDuration + deltaTime)
  IN [startTime |-> newStartTime,
      duration |-> IF newStartTime + newDuration > TimelineDuration
                   THEN TimelineDuration - newStartTime
                   ELSE newDuration]

\* the updates handleMouseMove passes to onUpdateTimelineItem
ResizeUpdates(rs, deltaX) ==
  LET new == IF rs.handle = "left" THEN ResizeLeft(rs, DeltaTime(deltaX))
             ELSE ResizeRight(rs, DeltaTime(deltaX))
  IN [startTime |-> Round1(new.startTime), duration |-> Round1(new.duration)]

\* ------------------------------------------------------------ VideoPreview
VisualItems(items) == SortByStartTime(FilterTrack(items, 0))
AudioItems(items) == SortByStartTime(FilterTrack(items, 1))

\* setTotalDuration(lastItem.startTime + lastItem.duration), 0 without items
PreviewTotalDuration(items) ==
  LET allItems == VisualItems(items) \o AudioItems(items)
  IN IF Len(allItems) > 0
     THEN MaxOver(EndTime(Head(allItems)), Tail(allItems))
     ELSE 0

Covers(item, time) == time >= item.startTime /\ time < EndTime(item)

\* active-item lookup without the end-of-track tolerance
FindCurrentItemNoTolerance(sortedItems, time) ==
  IF \E i \in 1..Len(sortedItems) : Covers(sortedItems[i], time)
  THEN sortedItems[CHOOSE i \in 1..Len(sortedItems) :
                     /\ Covers(sortedItems[i], time)
                     /\ \A j \in 1..(i - 1) : ~Covers(sortedItems[j], time)]
  ELSE NoItem

\* items.find(covers) with the end-of-track tolerance for the last item
FindCurrentItem(sortedItems, time) ==
  IF \E i \in 1..Len(sortedItems) : Covers(sortedItems[i], time)
  THEN sortedItems[CHOOSE i \in 1..Len(sortedItems) :
                     /\ Covers(sortedItems[i], time)
                     /\ \A j \in 1..(i - 1) : ~Covers(sortedItems[j], time)]
  ELSE IF Len(sortedItems) > 0
          /\ Abs(time - EndTime(sortedItems[Len(sortedItems)])) <= EndTolerance
       THEN sortedItems[Len(sortedItems)]
       ELSE NoItem

\* end test against the ruler's length (the 60 s floor included)
EndReachedAtFloor(time, total, playing) ==
  time >= Max(TimelineFloor, total) /\ total > 0 /\ playing

\* "Stop playback when reaching the end"
EndReached(time, total, playing) == time >= total /\ total > 0 /\ playing

\* the state after React has re-rendered and run the effects of VideoPreview
Render(items, time, playing) ==
  /\ timelineItems' = items
  /\ currentTime' = time
  /\ totalDuration' = PreviewTotalDuration(items)
  /\ currentVisualItem' = FindCurrentItem(VisualItems(items), time)
  /\ currentAudioItem' = FindCurrentItem(AudioItems(items), time)
  /\ isPlaying' = IF EndReached(time, PreviewTotalDuration(items), playing)
                  THEN FALSE ELSE playing

SeekTarget(time, total) == Max(0, Min(time, total))

TickIncrementTime(prevTime, total) ==
  LET newTime == prevTime + TickStep
  IN IF newTime >= total THEN total ELSE newTime

TickVideoTime(item, nativeTime, total) ==
  Min(item.startTime + nativeTime, total)

\* a probe that has no default for a missing duration
ProbedDurationNoFallback(raw, fallback) == Round2(raw)

ProbedDuration(raw, fallback) ==
  Round2(IF raw = 0 THEN fallback ELSE raw)


\* ------------------------------------------------------------------- Init
NoAlert == ""

NoWrite == 0 - 1

\* the thumbnail effect has not run
NoThumbJob == [pc |-> "idle", index |-> 0, attempt |-> 0]

\* no element is mounted; `write` is the value the last handler run assigned
\* to the element's currentTime (NoWrite when it assigned none)
NoElement == [clip |-> 0, ready |-> FALSE, native |-> 0, write |-> NoWrite]

\* no export, generation, delete or upload has started
InitOther ==
  /\ videoThumbnails = {}
  /\ thumbJob = NoThumbJob
  /\ videoElement = NoElement
  /\ audioElement = NoElement
  /\ isDownloading = FALSE
  /\ isDownloadingFile = FALSE
  /\ exports = <<>>
  /\ exportLog = [checks |-> 0, downloads |-> 0, alert |-> NoAlert]
  /\ generations = <<>>
  /\ deletes = <<>>
  /\ uploads = <<>>
  /\ nextMediaId = 1

\* the editor of a freshly opened project: empty timeline, stopped at 0
InitEditor ==
  /\ timelineItems = <<>>
  /\ pendingAdds = <<>>
  /\ isPlaying = FALSE
  /\ currentTime = 0
  /\ isScrubbing = FALSE
  /\ totalDuration = 0
  /\ currentVisualItem = NoItem
  /\ currentAudioItem = NoItem
  /\ resizing = NoResize
  /\ draggingPlayhead = FALSE
  /\ clickTimers = 0
  /\ nextId = 1
  /\ steps = 0
  /\ lastOp = Op("init", "-", 0)

\* a project without persisted media files
Init == InitEditor /\ InitOther /\ mediaResponds = TRUE /\ mediaLibrary = <<>>

\* ------------------------------------------------- MainEditorPage handlers
\* addToTimeline up to the end of getMediaDuration's executor: an image is
\* resolved at once and its clip appended; a video or audio item waits for
\* loadedmetadata / error with the track and start time already chosen.
AddToTimeline(type) ==
  /\ LET best == BestTrack(timelineItems, type)
     IN IF type = "image"
        THEN /\ Render(Append(timelineItems,
                              NewTimelineItem(nextId, type, best, ImageDuration)),
                       currentTime, isPlaying)
             /\ nextId' = nextId + 1
             /\ UNCHANGED pendingAdds
        ELSE /\ pendingAdds' = Append(pendingAdds, [type |-> type, best |-> best])
             /\ UNCHANGED <<rendered, nextId>>
  /\ UNCHANGED <<isScrubbing, resizing, draggingPlayhead, clickTimers>>

\* the "+" button of a media library item
AddButton(type) ==
  /\ AddToTimeline(type)
  /\ lastOp' = Op("add", type, 0 - 1)

\* the rest of addToTimeline once the probe has resolved with `duration`
CompleteAdd(i, duration) ==
  LET p == pendingAdds[i]
  IN /\ Render(Append(timelineItems,
                      NewTimelineItem(nextId, p.type, p.best, duration)),
               currentTime, isPlaying)
     /\ nextId' = nextId + 1
     /\ pendingAdds' = SubSeq(pendingAdds, 1, i - 1)
                       \o SubSeq(pendingAdds, i + 1, Len(pendingAdds))
     /\ lastOp' = Op("probe", p.type, 0)
     /\ UNCHANGED <<isScrubbing, resizing, draggingPlayhead, clickTimers>>

\* video.onloadedmetadata / audio.onloadedmetadata
ProbeLoaded(i, raw) ==
  /\ mediaResponds
  /\ i \in 1..Len(pendingAdds)
  /\ raw \in (IF pendingAdds[i].type = "video"
              THEN VideoRawDurations \cup TrimRawDurations
              ELSE AudioRawDurations)
  /\ CompleteAdd(i, ProbedDuration(raw, IF pendingAdds[i].type = "video"
                                        THEN VideoFallback ELSE AudioFallback))

\* video.onerror / audio.onerror
ProbeError(i) ==
  /\ mediaResponds
  /\ i \in 1..Len(pendingAdds)
  /\ CompleteAdd(i, IF pendingAdds[i].type = "video"
                    THEN VideoFallback ELSE AudioFallback)

RemoveFromTimeline(timelineItemId) ==
  /\ \E i \in 1..Len(timelineItems) : timelineItems[i].id = timelineItemId
  /\ Render(RemoveItem(timelineItems, timelineItemId), currentTime, isPlaying)
  /\ lastOp' = Op("remove", "-", timelineItemId)
  /\ UNCHANGED <<pendingAdds, isScrubbing, resizing, draggingPlayhead,
                 clickTimers, nextId>>

\* ------------------------------------------------------- Timeline handlers
HandleDrop(type, trackIndex) ==
  /\ trackIndex \in 0..(TOTAL_TRACKS - 1)
  /\ IF DropAccepted(type, trackIndex)
     THEN AddToTimeline(type)
     ELSE UNCHANGED <<rendered, pendingAdds, isScrubbing, resizing,
                      draggingPlayhead, clickTimers, nextId>>
  /\ lastOp' = Op("drop", type, trackIndex)

HandleResizeStart(itemId, handle) ==
  /\ resizing = NoResize /\ ~draggingPlayhead
  /\ \E i \in 1..Len(timelineItems) : timelineItems[i].id = itemId
  /\ LET item == ItemById(timelineItems, itemId)
     IN resizing' = [itemId |-> itemId, handle |-> handle,
                     originalStartTime |-> item.startTime,
                     originalDuration |-> item.duration]
  /\ lastOp' = Op("resizeStart", handle, itemId)
  /\ UNCHANGED <<rendered, pendingAdds, isScrubbing, draggingPlayhead,
                 clickTimers, nextId>>

\* handleMouseMove while a trim handle is held
ResizeMouseMove(deltaX) ==
  /\ resizing # NoResize /\ ~draggingPlayhead
  /\ IF ItemById(timelineItems, resizing.itemId) = NoItem
     THEN UNCHANGED rendered
     ELSE LET updates == ResizeUpdates(resizing, deltaX)
          IN Render(UpdateItem(timelineItems, resizing.itemId,
                               updates.startTime, updates.duration),
                    currentTime, isPlaying)
  /\ lastOp' = Op("resizeMove", resizing.handle, deltaX)
  /\ UNCHANGED <<pendingAdds, isScrubbing, resizing, draggingPlayhead,
                 clickTimers, nextId>>

HandleMouseUp ==
  /\ resizing # NoResize \/ draggingPlayhead
  /\ resizing' = NoResize
  /\ isScrubbing' = IF draggingPlayhead THEN FALSE ELSE isScrubbing
  /\ draggingPlayhead' = FALSE
  /\ lastOp' = Op("mouseUp", "-", 0)
  /\ UNCHANGED <<rendered, pendingAdds, clickTimers, nextId>>

\* onMouseDown of the playhead handle (which notifies scrubbing) and of the
\* enlarged hit area (which does not)
PlayheadMouseDown(element) ==
  /\ resizing = NoResize /\ ~draggingPlayhead
  /\ isScrubbing' = IF element = "handle" THEN TRUE ELSE isScrubbing
  /\ draggingPlayhead' = TRUE
  /\ lastOp' = Op("playheadDown", element, 0)
  /\ UNCHANGED <<rendered, pendingAdds, resizing, clickTimers, nextId>>

\* handleMouseMove while the playhead is held
PlayheadMouseMove(pointerX) ==
  /\ draggingPlayhead
  /\ Render(timelineItems, PointerToTime(timelineItems, pointerX), isPlaying)
  /\ lastOp' = Op("playheadMove", "-", pointerX)
  /\ UNCHANGED <<pendingAdds, isScrubbing, resizing, draggingPlayhead,
                 clickTimers, nextId>>

HandleTimelineClick(pointerX) ==
  /\ resizing = NoResize /\ ~draggingPlayhead
  /\ clickTimers < MaxClickTimers
  /\ isScrubbing' = TRUE
  /\ Render(timelineItems, PointerToTime(timelineItems, pointerX), isPlaying)
  /\ clickTimers' = clickTimers + 1
  /\ lastOp' = Op("rulerClick", "-", pointerX)
  /\ UNCHANGED <<pendingAdds, resizing, draggingPlayhead, nextId>>

\* the setTimeout(() => onScrubbingChange(false), 100) of a ruler click
ScrubTimerFire ==
  /\ clickTimers > 0
  /\ clickTimers' = clickTimers - 1
  /\ isScrubbing' = FALSE
  /\ lastOp' = Op("scrubTimer", "-", 0)
  /\ UNCHANGED <<rendered, pendingAdds, resizing, draggingPlayhead, nextId>>

\* --------------------------------------------------- VideoPreview handlers
TogglePlayback ==
  /\ IF Len(VisualItems(timelineItems)) = 0 /\ Len(AudioItems(timelineItems)) = 0
     THEN UNCHANGED rendered
     ELSE Render(timelineItems, currentTime, ~isPlaying)
  /\ lastOp' = Op("toggle", "-", 0)
  /\ UNCHANGED <<pendingAdds, isScrubbing, resizing, draggingPlayhead,
                 clickTimers, nextId>>

\* skipBackward / skipForward through seekToTime; the buttons exist with content
Skip(direction) ==
  /\ Len(timelineItems) > 0
  /\ Render(timelineItems,
            SeekTarget(currentTime + direction * SkipStep, totalDuration),
            isPlaying)
  /\ lastOp' = Op("skip", "-", direction)
  /\ UNCHANGED <<pendingAdds, isScrubbing, resizing, draggingPlayhead,
                 clickTimers, nextId>>

SkipBackward == Skip(0 - 1)
SkipForward == Skip(1)

\* an interval that is not cleared when playback is paused
TickerRunningAfterPause(playing, total) == total > 0

\* the interval exists while isPlaying && totalDuration > 0; the effect's
\* cleanup clears it when either changes
TickerRunning(playing, total) == playing /\ total > 0

\* a tick of the 100 ms interval while the active video element is advancing
TickVideo(nativeTime) ==
  /\ TickerRunning(isPlaying, totalDuration)
  /\ currentVisualItem # NoItem /\ currentVisualItem.type = "video"
  /\ Render(timelineItems,
            TickVideoTime(currentVisualItem, nativeTime, totalDuration),
            isPlaying)
  /\ lastOp' = Op("tick", "video", 0)
  /\ UNCHANGED <<pendingAdds, isScrubbing, resizing, draggingPlayhead,
                 clickTimers, nextId>>

\* a tick of the 100 ms interval otherwise (image, no visual, paused element)
TickIncrement ==
  /\ TickerRunning(isPlaying, totalDuration)
  /\ Render(timelineItems, TickIncrementTime(currentTime, totalDuration),
            isPlaying)
  /\ lastOp' = Op("tick", "increment", 0)
  /\ UNCHANGED <<pendingAdds, isScrubbing, resizing, draggingPlayhead,
                 clickTimers, nextId>>

\* ------------------------------------------------------------------- Next
\* one more handler run, in behaviours of at most MaxSteps handler runs
Counted == steps < MaxSteps /\ steps' = steps + 1 /\ UNCHANGED otherVars

Next ==
  \/ \E type \in MediaTypes : Counted /\ AddButton(type)
  \/ \E type \in MediaTypes, trackIndex \in 0..(TOTAL_TRACKS - 1) :
       Counted /\ HandleDrop(type, trackIndex)
  \/ \E i \in 1..MaxSteps, raw \in VideoRawDurations \cup AudioRawDurations :
       Counted /\ ProbeLoaded(i, raw)
  \/ \E i \in 1..MaxSteps : Counted /\ ProbeError(i)
  \/ \E id \in 1..MaxSteps : Counted /\ RemoveFromTimeline(id)
  \/ \E id \in 1..MaxSteps, handle \in {"left", "right"} :
       Counted /\ HandleResizeStart(id, handle)
  \/ \E deltaX \in ResizeDeltaXs : Counted /\ ResizeMouseMove(deltaX)
  \/ Counted /\ HandleMouseUp
  \/ \E element \in {"handle", "hitArea"} : Counted /\ PlayheadMouseDown(element)
  \/ \E pointerX \in PointerXs : Counted /\ PlayheadMouseMove(pointerX)
  \/ \E pointerX \in PointerXs : Counted /\ HandleTimelineClick(pointerX)
  \/ Counted /\ ScrubTimerFire
  \/ Counted /\ TogglePlayback
  \/ Counted /\ SkipBackward
  \/ Counted /\ SkipForward
  \/ \E nativeTime \in NativeTimes : Counted /\ TickVideo(nativeTime)
  \/ Counted /\ TickIncrement

Spec == Init /\ [][Next]_vars

\* ======================================================================
\* Properties
\* ======================================================================
\* the clips of a track, as a set; the occupied length of a track is the
\* maximum of startTime + duration over them (0 for an empty track)
ClipsOn(items, trackIndex) ==
  {items[i] : i \in {j \in 1..Len(items) : items[j].track = trackIndex}}

OccupiedLength(items, trackIndex) ==
  LET ends == {EndTime(c) : c \in ClipsOn(items, trackIndex)}
  IN IF ends = {} THEN 0 ELSE CHOOSE m \in ends : \A e \in ends : e <= m

RECURSIVE SumDurations(_)
SumDurations(clips) ==
  IF clips = {} THEN 0
  ELSE LET c == CHOOSE x \in clips : TRUE
       IN c.duration + SumDurations(clips \ {c})

\* clips[1] starts at 0 and each next clip starts where the previous one ends
ContiguousFromZero(clips) ==
  /\ Len(clips) > 0 => clips[1].startTime = 0
  /\ \A k \in 1..(Len(clips) - 1) : clips[k + 1].startTime = EndTime(clips[k])

\* a track without gap or overlap: positive durations, and each clip starts
\* at the sum of the durations of the clips that start before it
GapFree(clips) ==
  \A c \in clips :
    /\ c.duration > 0
    /\ c.startTime = SumDurations({d \in clips : d.startTime < c.startTime})
    /\ \A d \in clips : d.startTime = c.startTime => d = c

PositionOf(items, id) == CHOOSE i \in 1..Len(items) : items[i].id = id

\* `after` lists clips of `before` in the order of their startTime in
\* `before`, equal startTimes in the order they had in `before`
OrderKept(before, after) ==
  \A i, j \in 1..Len(after) :
    i < j =>
      LET a == ItemById(before, after[i].id)
          b == ItemById(before, after[j].id)
      IN \/ a.startTime < b.startTime
         \/ /\ a.startTime = b.startTime
            /\ PositionOf(before, a.id) < PositionOf(before, b.id)

RemovalStep == lastOp'.op = "remove" /\ steps' # steps

C2_TrimFloor ==
  (lastOp.op = "resizeMove" /\ ItemById(timelineItems, resizing.itemId) # NoItem)
    => ItemById(timelineItems, resizing.itemId).duration >= MinClipDuration

\* C3: every clip on the timeline has startTime >= 0 and duration > 0.
C3_ClipBounds ==
  \A i \in 1..Len(timelineItems) :
    timelineItems[i].startTime >= 0 /\ timelineItems[i].duration > 0

\* addToTimeline calls run one at a time: a call starts only when no earlier
\* call is waiting for its duration probe
IsAddCall ==
  \/ lastOp'.op = "add"
  \/ lastOp'.op = "drop" /\ DropAccepted(lastOp'.kind, lastOp'.arg)

NextSeq == Next /\ (IsAddCall => pendingAdds = <<>>)

SpecSeq == Init /\ [][NextSeq]_vars

\* C4: with addToTimeline calls run one at a time, each new clip starts at
\* the occupied end its track has when the clip is inserted (0 on an empty
\* track), so the insertion creates neither a gap nor an overlap.
C4_AppendAtTrackEnd ==
  [][Len(timelineItems') = Len(timelineItems) + 1 =>
       LET new == timelineItems'[Len(timelineItems')]
       IN new.startTime = OccupiedLength(timelineItems, new.track)
    ]_vars

\* the item type and the class of the track disagree
Mismatch(type, trackIndex) ==
  \/ type = "audio" /\ trackIndex \in Range(VIDEO_IMAGE_TRACKS)
  \/ type \in {"video", "image"} /\ trackIndex \in Range(AUDIO_TRACKS)

\* C5: a drop whose item type does not match the class of the target track
\* creates no clip and leaves the timeline and the playback state unchanged.
C5_MismatchedDropRejected ==
  [][(lastOp'.op = "drop" /\ steps' # steps /\ Mismatch(lastOp'.kind, lastOp'.arg))
       => UNCHANGED <<timelineItems, pendingAdds, nextId, currentTime, isPlaying,
                      isScrubbing, totalDuration, currentVisualItem,
                      currentAudioItem>>
    ]_vars

\* a mismatched drop during playback of a non-empty timeline
C5_Witness ==
  /\ lastOp.op = "drop"
  /\ Mismatch(lastOp.kind, lastOp.arg)
  /\ Len(timelineItems) > 0
  /\ isPlaying

\* C6: every clip sits on a track of its own class: audio clips on audio
\* tracks, video and image clips on visual tracks.
C6_KindMatchesTrack ==
  \A i \in 1..Len(timelineItems) :
    LET c == timelineItems[i]
    IN \/ c.type = "audio" /\ c.track \in Range(AUDIO_TRACKS)
       \/ c.type \in {"video", "image"} /\ c.track \in Range(VIDEO_IMAGE_TRACKS)

\* a trim on a timeline that holds an audio clip and a visual clip
C6_Witness ==
  /\ lastOp.op = "resizeMove"
  /\ \E i, j \in 1..Len(timelineItems) :
       timelineItems[i].type = "audio" /\ timelineItems[j].type # "audio"

\* ----------------------------------------------- the active-clip rule alone
Clip(id, type, track, startTime, duration) ==
  [id |-> id, type |-> type, track |-> track,
   startTime |-> startTime, duration |-> duration]

ImageA == Clip(1, "image", 0, 0, ImageDuration)           \* [0, 5)
VideoB == Clip(2, "video", 0, 5 * Sec, 4 * Sec)           \* [5, 9)
ImageC == Clip(3, "image", 0, 3 * Sec, 7 * Sec)           \* [3, 10), left-trimmed
ImageG == Clip(4, "image", 0, 2 * Sec, 3 * Sec)           \* [2, 5), left-trimmed
AudioA == Clip(5, "audio", 1, 0, 8 * Sec)                 \* [0, 8)
AudioB == Clip(6, "audio", 1, 8 * Sec, AudioFallback)     \* [8, 23)

ActiveTimelines ==
  { <<>>, <<ImageA>>, <<AudioA>>, <<ImageA, AudioA>>, <<AudioA, ImageA>>,
    <<ImageA, VideoB>>, <<ImageA, VideoB, AudioA>>, <<ImageA, ImageC>>,
    <<ImageA, ImageC, AudioA>>, <<ImageG>>, <<ImageG, AudioA>>,
    <<AudioA, AudioB>>, <<ImageA, AudioA, AudioB>> }

ActiveTimes ==
  { 0, 2 * Sec, 495 * Cs, 5 * Sec, 505 * Cs, 510 * Cs, 515 * Cs, 790 * Cs,
    8 * Sec, 810 * Cs, 820 * Cs, 905 * Cs, 1010 * Cs, 2305 * Cs }

InitActive ==
  /\ timelineItems \in ActiveTimelines
  /\ pendingAdds = <<>>
  /\ isPlaying = FALSE
  /\ currentTime = 0
  /\ isScrubbing = FALSE
  /\ totalDuration = PreviewTotalDuration(timelineItems)
  /\ currentVisualItem = FindCurrentItem(VisualItems(timelineItems), 0)
  /\ currentAudioItem = FindCurrentItem(AudioItems(timelineItems), 0)
  /\ resizing = NoResize
  /\ draggingPlayhead = FALSE
  /\ clickTimers = 0
  /\ nextId = 7
  /\ steps = 0
  /\ lastOp = Op("init", "-", 0)
  /\ InitOther
  /\ mediaResponds = TRUE
  /\ mediaLibrary = <<>>

\* onTimeChange(time) and the effect that picks the active items
SetCurrentTime(time) ==
  /\ Render(timelineItems, time, isPlaying)
  /\ lastOp' = Op("setTime", "-", time)
  /\ UNCHANGED <<pendingAdds, isScrubbing, resizing, draggingPlayhead,
                 clickTimers, nextId, steps, otherVars>>

NextActive == \E time \in ActiveTimes : SetCurrentTime(time)

SpecActive == InitActive /\ [][NextActive]_vars

\* a comes before b on their track: smaller startTime, equal startTimes in
\* the order of the timeline array
Before(items, a, b) ==
  \/ a.startTime < b.startTime
  \/ a.startTime = b.startTime /\ PositionOf(items, a.id) < PositionOf(items, b.id)

\* the active clip of a track at time t: the (first) clip with
\* startTime <= t < startTime + duration; without one, the last clip of the
\* track when t is within 0.1 s of its end; otherwise none
ActiveByRule(items, trackIndex, t) ==
  LET clips == ClipsOn(items, trackIndex)
      covering == {c \in clips : c.startTime <= t /\ t < c.startTime + c.duration}
      last == CHOOSE c \in clips : \A d \in clips \ {c} : Before(items, d, c)
  IN IF covering # {}
     THEN CHOOSE c \in covering : \A d \in covering \ {c} : Before(items, c, d)
     ELSE IF clips # {} /\ Abs(t - (last.startTime + last.duration)) <= Tenth
          THEN last
          ELSE NoItem

\* C7: on each track class the active clip is the one covering t and, when
\* none covers t, the track's last clip exactly when t is within 0.1 s of
\* its end; with visual [0,5) and audio [0,8): at 8.0 the audio clip is
\* active and no visual, at 5.05 the visual clip is active, at 8.2 nothing.
C7_ActiveClipRule ==
  /\ currentVisualItem = ActiveByRule(timelineItems, 0, currentTime)
  /\ currentAudioItem = ActiveByRule(timelineItems, 1, currentTime)
  /\ Range(timelineItems) = {ImageA, AudioA} =>
       /\ currentTime = 8 * Sec =>
            currentAudioItem = AudioA /\ currentVisualItem = NoItem
       /\ currentTime = 505 * Cs => currentVisualItem = ImageA
       /\ currentTime = 820 * Cs =>
            currentAudioItem = NoItem /\ currentVisualItem = NoItem

\* the time was set to the end of the audio clip, past the visual clip
C7_Witness ==
  /\ lastOp.op = "setTime"
  /\ timelineItems = <<ImageA, AudioA>>
  /\ currentTime = 8 * Sec
  /\ currentAudioItem = AudioA
  /\ currentVisualItem = NoItem

\* ------------------------------------------------------- playback and time
FurthestClipEnd(items) ==
  LET ends == {EndTime(items[i]) : i \in 1..Len(items)}
  IN IF ends = {} THEN 0 ELSE CHOOSE m \in ends : \A e \in ends : e <= m

\* totalDuration() of the timeline: the furthest clip end with the 60 s floor
TimelineLength(items) == Max(60 * Sec, FurthestClipEnd(items))

AutomaticStop == isPlaying /\ ~isPlaying' /\ lastOp'.op # "toggle"

TickStepTaken == lastOp'.op = "tick" /\ steps' # steps

\* C8 (as stated): playback leaves Playing by itself when the virtual time
\* reaches totalDuration() = max(60 s, furthest clip end), and no tick sets
\* the time above it.
C8_StopsAtTimelineLength ==
  [][/\ AutomaticStop => currentTime' >= TimelineLength(timelineItems')
     /\ TickStepTaken => currentTime' <= TimelineLength(timelineItems')
    ]_vars

\* C8 (amended): playback leaves Playing by itself when the virtual time
\* reaches the furthest clip end (no 60 s floor), provided that end is
\* positive: it never stays Playing at or past that end, it stops by itself
\* only there, and no tick sets the time above it.
C8_StopsAtContentEnd ==
  [][/\ (isPlaying' /\ FurthestClipEnd(timelineItems') > 0)
          => currentTime' < FurthestClipEnd(timelineItems')
     /\ AutomaticStop =>
          /\ FurthestClipEnd(timelineItems') > 0
          /\ currentTime' >= FurthestClipEnd(timelineItems')
     /\ TickStepTaken => currentTime' <= FurthestClipEnd(timelineItems')
    ]_vars

\* a tick reached the end of a timeline shorter than 60 s and playback stopped
C8_Witness ==
  /\ lastOp.op = "tick"
  /\ ~isPlaying
  /\ Len(timelineItems) > 0
  /\ currentTime = FurthestClipEnd(timelineItems)
  /\ currentTime < TimelineLength(timelineItems)

\* C9: 0 <= t <= the total duration of the timeline at all times, removals
\* and trims that shorten the timeline included.
C9_TimeWithinTotal ==
  0 <= currentTime /\ currentTime <= TimelineLength(timelineItems)

\* ------------------------------------- editing and scrubbing, longer runs
MaxScrubSteps == 8

CountedScrub ==
  steps < MaxScrubSteps /\ steps' = steps + 1 /\ UNCHANGED otherVars

NextScrub ==
  \/ \E type \in MediaTypes : CountedScrub /\ AddButton(type)
  \/ \E i \in 1..MaxScrubSteps, raw \in VideoRawDurations \cup AudioRawDurations :
       CountedScrub /\ ProbeLoaded(i, raw)
  \/ \E id \in 1..MaxScrubSteps : CountedScrub /\ RemoveFromTimeline(id)
  \/ \E id \in 1..MaxScrubSteps, handle \in {"left", "right"} :
       CountedScrub /\ HandleResizeStart(id, handle)
  \/ \E deltaX \in ResizeDeltaXs : CountedScrub /\ ResizeMouseMove(deltaX)
  \/ CountedScrub /\ HandleMouseUp
  \/ \E pointerX \in PointerXs : CountedScrub /\ HandleTimelineClick(pointerX)

SpecScrub == Init /\ [][NextScrub]_vars

ClampTo(v, lo, hi) == IF v < lo THEN lo ELSE IF v > hi THEN hi ELSE v

\* C10: a playhead drag or ruler click at pixelX sets the time to
\* (pixelX - gutter) / availableWidth * totalDuration() clamped to
\* [0, contentEndTime()]: never past the end of the last real clip, and 0 on
\* an empty timeline.
C10_ScrubMapping ==
  lastOp.op \in {"playheadMove", "rulerClick"} =>
    LET raw == (lastOp.arg - TRACK_LABELS_WIDTH)
                 * (TimelineLength(timelineItems) \div AvailableWidth)
        contentEnd == FurthestClipEnd(timelineItems)
    IN /\ currentTime = ClampTo(raw, 0, contentEnd)
       /\ currentTime <= contentEnd
       /\ timelineItems = <<>> => currentTime = 0

\* ------------------------------------------------------ scrubbing and ticks
\* C11: while the scrubbing flag is set a tick has no authority over the
\* virtual time: it leaves the time as the last scrub event set it, also
\* when playback was Playing when the scrub began.
C11_TicksSuspendedWhileScrubbing ==
  [][(isScrubbing /\ TickStepTaken) => currentTime' = currentTime]_vars

\* C12: while the playing flag is false the virtual time changes only
\* through a playhead drag, a ruler click or a skip, never through a tick.
C12_NoTickAfterPause ==
  [][(~isPlaying /\ steps' # steps) =>
       /\ lastOp'.op # "tick"
       /\ currentTime' # currentTime
            => lastOp'.op \in {"playheadMove", "rulerClick", "skip"}
    ]_vars

\* playback was paused in the middle of the content after ticks had run
C12_Witness ==
  /\ lastOp.op = "toggle"
  /\ ~isPlaying
  /\ currentTime > 0
  /\ currentTime < FurthestClipEnd(timelineItems)

ScrubEnd ==
  /\ steps' # steps
  /\ \/ lastOp'.op = "scrubTimer"
     \/ lastOp'.op = "mouseUp" /\ draggingPlayhead

\* C13: when a scrub ends (pointer-up after a playhead drag, or the delayed
\* end of a ruler click) the scrubbing flag is false and the playing flag is
\* false, whether the scrub began in Stopped or in Playing.
C13_ScrubEndsStopped ==
  [][ScrubEnd => (~isScrubbing' /\ ~isPlaying')]_vars

\* ======================================================================
\* Export (VideoPreview: handleDownload, pollForCompositionComplete)
\* ======================================================================
maxAttempts == 24      \* const maxAttempts = 24
MaxExports == 2        \* handleDownload calls in flight at once

ComposeResponses == {"httpError", "jobId", "downloadUrl", "neither"}
StatusResponses == {"processing", "succeeded", "failed", "httpError"}
ServerErrors == {"", "render crashed"}    \* result.error, "" when absent

hasContent ==
  Len(VisualItems(timelineItems)) > 0 \/ Len(AudioItems(timelineItems)) > 0

\* a download button that is disabled only without content
DownloadDisabledWithoutContent(content, downloading, downloadingFile) ==
  ~content

\* disabled={!hasContent || isDownloading || isDownloadingFile}
DownloadDisabled(content, downloading, downloadingFile) ==
  ~content \/ downloading \/ downloadingFile

\* a poll loop that allows one more check
PollAgainInclusive(attempts) == attempts <= maxAttempts

\* while (attempts < maxAttempts)
PollAgain(attempts) == attempts < maxAttempts

\* a status check that ignores the failed status
StatusOutcomeIgnoringFailed(status, serverError) ==
  IF status = "succeeded" THEN [kind |-> "download", message |-> NoAlert]
  ELSE IF status = "httpError"
  THEN [kind |-> "throw", message |-> "Status check failed"]
  ELSE [kind |-> "wait", message |-> NoAlert]

\* what one status check of pollForCompositionComplete leads to
StatusOutcome(status, serverError) ==
  IF status = "httpError"
  THEN [kind |-> "throw", message |-> "Status check failed"]
  ELSE IF status = "succeeded" THEN [kind |-> "download", message |-> NoAlert]
  ELSE IF status = "failed"
  THEN [kind |-> "throw",
        message |-> IF serverError # "" THEN serverError
                    ELSE "Video composition failed"]
  ELSE [kind |-> "wait", message |-> NoAlert]

RemoveAt(seq, i) == SubSeq(seq, 1, i - 1) \o SubSeq(seq, i + 1, Len(seq))

\* a handleDownload without its finally block
FinishExportKeepsFlag(i, download, message) ==
  /\ exports' = RemoveAt(exports, i)
  /\ exportLog' = [exportLog EXCEPT
                     !.downloads = IF download THEN @ + 1 ELSE @,
                     !.alert = IF message # NoAlert THEN message ELSE @]
  /\ UNCHANGED <<isDownloading, isDownloadingFile>>

\* the end of handleDownload: the optional download, the alert of the catch
\* block and the finally block
FinishExport(i, download, message) ==
  /\ exports' = RemoveAt(exports, i)
  /\ exportLog' = [exportLog EXCEPT
                     !.downloads = IF download THEN @ + 1 ELSE @,
                     !.alert = IF message # NoAlert THEN message ELSE @]
  /\ isDownloading' = FALSE
  /\ isDownloadingFile' = FALSE   \* set and cleared by downloadComposedVideo

\* a click on the download button
HandleDownload ==
  /\ ~DownloadDisabled(hasContent, isDownloading, isDownloadingFile)
  /\ Len(exports) < MaxExports
  /\ isDownloading' = TRUE
  /\ exports' = Append(exports, [pc |-> "compose", attempts |-> 0])
  /\ exportLog' = [checks |-> 0, downloads |-> 0, alert |-> NoAlert]
  /\ lastOp' = Op("export", "-", 0)
  /\ UNCHANGED <<editorVars, isDownloadingFile, elementVars, catalogVars>>

\* the answer to POST compose-video
ComposeResponds(i, response) ==
  /\ i \in 1..Len(exports) /\ exports[i].pc = "compose"
  /\ IF response = "httpError"
     THEN FinishExport(i, FALSE, "Video composition failed: status")
     ELSE IF response = "jobId" /\ PollAgain(0)
     THEN /\ exports' = [exports EXCEPT ![i].pc = "poll"]
          /\ UNCHANGED <<exportLog, isDownloading, isDownloadingFile>>
     ELSE IF response = "jobId"
     THEN FinishExport(i, FALSE, "Video composition timed out")
     ELSE FinishExport(i, response = "downloadUrl", NoAlert)
  /\ lastOp' = Op("compose", response, i)
  /\ UNCHANGED <<editorVars, elementVars, catalogVars>>

\* the answer to one status check
StatusResponds(i, status, serverError) ==
  /\ i \in 1..Len(exports) /\ exports[i].pc = "poll"
  /\ LET outcome == StatusOutcome(status, serverError)
     IN IF outcome.kind = "wait"
        THEN /\ exports' = [exports EXCEPT ![i].pc = "wait"]
             /\ exportLog' = [exportLog EXCEPT !.checks = @ + 1]
             /\ UNCHANGED <<isDownloading, isDownloadingFile>>
        ELSE /\ exports' = RemoveAt(exports, i)
             /\ exportLog' = [exportLog EXCEPT
                                !.checks = @ + 1,
                                !.downloads = IF outcome.kind = "download"
                                              THEN @ + 1 ELSE @,
                                !.alert = IF outcome.kind = "throw"
                                          THEN outcome.message ELSE @]
             /\ isDownloading' = FALSE
             /\ isDownloadingFile' = FALSE
  /\ lastOp' = Op("status", status, serverError)
  /\ UNCHANGED <<editorVars, elementVars, catalogVars>>

\* the 5 s wait of the poll loop is over: attempts++ and the loop test
PollTimerFires(i) ==
  /\ i \in 1..Len(exports) /\ exports[i].pc = "wait"
  /\ IF PollAgain(exports[i].attempts + 1)
     THEN /\ exports' = [exports EXCEPT ![i].attempts = @ + 1, ![i].pc = "poll"]
          /\ UNCHANGED <<exportLog, isDownloading, isDownloadingFile>>
     ELSE FinishExport(i, FALSE, "Video composition timed out")
  /\ lastOp' = Op("pollTimer", "-", i)
  /\ UNCHANGED <<editorVars, elementVars, catalogVars>>

NextExport ==
  \/ Counted /\ AddButton("image")
  \/ \E id \in 1..MaxSteps : Counted /\ RemoveFromTimeline(id)
  \/ HandleDownload
  \/ \E i \in 1..MaxExports, response \in ComposeResponses :
       ComposeResponds(i, response)
  \/ \E i \in 1..MaxExports, status \in StatusResponses,
        serverError \in ServerErrors : StatusResponds(i, status, serverError)
  \/ \E i \in 1..MaxExports : PollTimerFires(i)

SpecExport == Init /\ [][NextExport]_vars

\* C14: when the status endpoint answers processing on 24 consecutive
\* checks, the poll loop stops after exactly 24 checks (there is no 25th),
\* the export ends with the timeout error, and no download is started.
C14_PollTimeout ==
  [][/\ exportLog'.checks <= 24
     /\ (lastOp'.op = "pollTimer" /\ exports' # exports /\ exportLog.checks = 24)
          => /\ exports' = <<>>
             /\ ~isDownloading'
             /\ exportLog'.alert = "Video composition timed out"
             /\ exportLog'.downloads = 0
     /\ exportLog'.alert = "Video composition timed out"
          => exportLog'.checks = 24 /\ exportLog'.downloads = 0
    ]_vars

\* an export has timed out after its 24th check
C14_Witness ==
  /\ lastOp.op = "pollTimer"
  /\ exports = <<>>
  /\ exportLog.checks = 24
  /\ exportLog.alert = "Video composition timed out"

StatusStep(status) ==
  lastOp'.op = "status" /\ lastOp'.kind = status /\ exports' # exports

\* C15: a failed status ends the export with the server-supplied error
\* message and no download; a succeeded status ends polling and starts
\* exactly one download; a download starts only after a succeeded status or
\* a synchronous downloadUrl response.
C15_PollOutcomes ==
  [][/\ StatusStep("failed") =>
          /\ exports' = <<>>
          /\ exportLog'.downloads = 0
          /\ lastOp'.arg # "" => exportLog'.alert = lastOp'.arg
          /\ exportLog'.alert # NoAlert
     /\ StatusStep("succeeded") =>
          /\ exports' = <<>>
          /\ exportLog.downloads = 0 /\ exportLog'.downloads = 1
     /\ exportLog'.downloads > exportLog.downloads =>
          /\ exportLog'.downloads = 1
          /\ \/ lastOp'.op = "status" /\ lastOp'.kind = "succeeded"
             \/ lastOp'.op = "compose" /\ lastOp'.kind = "downloadUrl"
    ]_vars

\* a job succeeded after some processing checks and its download started
C15_Witness ==
  /\ lastOp.op = "status" /\ lastOp.kind = "succeeded"
  /\ exportLog.checks >= 2
  /\ exportLog.downloads = 1
  /\ exports = <<>>

\* C16: at most one handleDownload call, and so at most one poll loop, is in
\* flight at any time; while it is, the download button is disabled.
C16_SinglePollLoop ==
  /\ Len(exports) <= 1
  /\ Len(exports) = 1 =>
       DownloadDisabled(hasContent, isDownloading, isDownloadingFile)

\* a poll loop is waiting while the timeline has content
C16_Witness ==
  /\ Len(exports) = 1
  /\ exports[1].pc = "wait"
  /\ hasContent
  /\ isDownloading

\* ======================================================================
\* Media catalog (generation, delete, upload)
\* ======================================================================
MaxDbFiles == 2        \* persisted media files of the loaded project
MaxMedia == 2          \* media ids created in one behaviour
MaxUploads == 1        \* upload handlers in flight at once
maxAttemptsJob == 60   \* const maxAttempts = 60 of pollJobUntilComplete

MediaId(prefix, n) == [prefix |-> prefix, n |-> n]

\* `db-${file.id}` items as loadProjectMediaFiles builds them
DbItem(n) == [id |-> MediaId("db", n), isPending |-> FALSE, url |-> "file"]

\* the catalogs initializeProject can load
LoadedCatalogs == {[i \in 1..n |-> DbItem(i)] : n \in 0..MaxDbFiles}

PendingItem(id, url) == [id |-> id, isPending |-> TRUE, url |-> url]
ReadyItem(id, url) == [id |-> id, isPending |-> FALSE, url |-> url]

\* what checkJobStatus can report; an erroring check reports failed
JobStatuses ==
  { [status |-> "processing", result_url |-> "", error |-> ""],
    [status |-> "succeeded", result_url |-> "result", error |-> ""],
    [status |-> "succeeded", result_url |-> "", error |-> ""],
    [status |-> "failed", result_url |-> "", error |-> "quota"],
    [status |-> "failed", result_url |-> "", error |-> ""] }

Processing == [status |-> "processing", result_url |-> "", error |-> ""]

\* a job that reports processing `k` times and `then` ever after
JobRuns == [k : {0, 2, maxAttemptsJob - 1, maxAttemptsJob}, then : JobStatuses]

StatusAt(run, attempts) == IF attempts < run.k THEN Processing ELSE run.then

RECURSIVE PollJobUntilComplete(_, _)
\* AIEditorAPI.pollJobUntilComplete, from `attempts` checks on
PollJobUntilComplete(run, attempts) ==
  IF ~(attempts < maxAttemptsJob)
  THEN [success |-> FALSE, result_url |-> "", error |-> "Generation timed out"]
  ELSE LET status == StatusAt(run, attempts)
       IN IF status.status = "succeeded"
          THEN [success |-> TRUE, result_url |-> status.result_url, error |-> ""]
          ELSE IF status.status = "failed"
          THEN [success |-> FALSE, result_url |-> "",
                error |-> IF status.error # "" THEN status.error
                          ELSE "Generation failed"]
          ELSE PollJobUntilComplete(run, attempts + 1)

\* a completion that puts the ready item first instead of in place
ReplacePendingAtFront(library, pendingId, item) ==
  <<item>> \o SelectSeq(library, LAMBDA x : x.id # pendingId)

\* currentLibrary.map(item => item.id === pendingJobId ? completed : item)
ReplacePending(library, pendingId, item) ==
  [j \in 1..Len(library) |->
     IF library[j].id = pendingId THEN item ELSE library[j]]

\* a failure path that leaves the placeholder in the catalog
RemovePendingNever(library, pendingId) == library

\* currentLibrary.filter(item => item.id !== pendingJobId)
RemovePending(library, pendingId) ==
  SelectSeq(library, LAMBDA x : x.id # pendingId)

\* ------------------------------------------- handleSendPrompt (part_000)
HandleSendPrompt ==
  /\ nextMediaId <= MaxMedia
  /\ LET pendingJobId == MediaId("pending", nextMediaId)
     IN /\ mediaLibrary' =
             <<PendingItem(pendingJobId, "placeholder")>> \o mediaLibrary
        /\ generations' = Append(generations,
             [flow |-> "sendPrompt", pendingId |-> pendingJobId, pc |-> "request"])
        /\ lastOp' = Op("sendPrompt", "-", pendingJobId)
  /\ nextMediaId' = nextMediaId + 1
  /\ UNCHANGED <<editorVars, elementVars, exportVars, deletes, uploads>>

\* the catch block of handleSendPrompt
SendPromptFails(i) ==
  /\ mediaLibrary' = RemovePending(mediaLibrary, generations[i].pendingId)
  /\ generations' = RemoveAt(generations, i)

\* the answer of aiEditorApi.generateContent
GenerateContentResponds(i, response) ==
  /\ i \in 1..Len(generations)
  /\ generations[i].flow = "sendPrompt" /\ generations[i].pc = "request"
  /\ IF response = "rejected" THEN SendPromptFails(i)
     ELSE IF response = "jobId"
     THEN /\ generations' = [generations EXCEPT ![i].pc = "polling"]
          /\ UNCHANGED mediaLibrary
     ELSE /\ generations' = RemoveAt(generations, i)
          /\ UNCHANGED mediaLibrary
  /\ lastOp' = Op("generateContent", response, generations[i].pendingId)
  /\ UNCHANGED <<editorVars, elementVars, exportVars, deletes, uploads,
                 nextMediaId>>

\* pollJobUntilComplete has returned
PollJobReturns(i, run) ==
  /\ i \in 1..Len(generations)
  /\ generations[i].flow = "sendPrompt" /\ generations[i].pc = "polling"
  /\ LET result == PollJobUntilComplete(run, 0)
         pendingJobId == generations[i].pendingId
     IN IF result.success /\ result.result_url # ""
        THEN /\ mediaLibrary' = ReplacePending(mediaLibrary, pendingJobId,
                                  ReadyItem(pendingJobId, result.result_url))
             /\ generations' = RemoveAt(generations, i)
             /\ lastOp' = Op("generated", "succeeded", pendingJobId)
        ELSE /\ SendPromptFails(i)
             /\ lastOp' = Op("generated",
                             IF result.success THEN "noResultUrl"
                             ELSE IF result.error = "Generation timed out"
                             THEN "timeout" ELSE "failed",
                             pendingJobId)
  /\ UNCHANGED <<editorVars, elementVars, exportVars, deletes, uploads,
                 nextMediaId>>

\* --------------------------------------- handleGenerate (ChatInterface.tsx)
isGenerating ==
  \E i \in 1..Len(generations) :
    generations[i].flow = "generate" /\ generations[i].pc = "request"

HandleGenerate ==
  /\ ~isGenerating
  /\ nextMediaId <= MaxMedia
  /\ generations' = Append(generations,
       [flow |-> "generate", pendingId |-> MediaId("pending", nextMediaId),
        pc |-> "request"])
  /\ nextMediaId' = nextMediaId + 1
  /\ lastOp' = Op("generate", "-", MediaId("pending", nextMediaId))
  /\ UNCHANGED <<editorVars, elementVars, exportVars, mediaLibrary, deletes,
                 uploads>>

\* the answer of generateContent: addMediaItem, addPendingItem or setError
GenerateResponds(i, response) ==
  /\ i \in 1..Len(generations)
  /\ generations[i].flow = "generate" /\ generations[i].pc = "request"
  /\ LET pendingId == generations[i].pendingId
     IN IF response = "jobId"
        THEN /\ mediaLibrary' = <<PendingItem(pendingId, "")>> \o mediaLibrary
             /\ generations' = [generations EXCEPT ![i].pc = "polling"]
        ELSE /\ mediaLibrary' =
                  IF response = "resultUrl"
                  THEN <<ReadyItem(MediaId("generated", pendingId.n), "result")>>
                       \o mediaLibrary
                  ELSE mediaLibrary
             /\ generations' = RemoveAt(generations, i)
  /\ lastOp' = Op("generateResponse", response, generations[i].pendingId)
  /\ UNCHANGED <<editorVars, elementVars, exportVars, deletes, uploads,
                 nextMediaId>>

\* one run of the 5 s interval of pollForCompletion
PollForCompletionTick(i, status) ==
  /\ i \in 1..Len(generations)
  /\ generations[i].flow = "generate" /\ generations[i].pc = "polling"
  /\ LET pendingId == generations[i].pendingId
     IN IF status.status = "succeeded" /\ status.result_url # ""
        THEN /\ mediaLibrary' = ReplacePending(mediaLibrary, pendingId,
                                  ReadyItem(pendingId, status.result_url))
             /\ generations' = RemoveAt(generations, i)
             /\ lastOp' = Op("generated", "succeeded", pendingId)
        ELSE IF status.status = "failed"
        THEN /\ mediaLibrary' = RemovePending(mediaLibrary, pendingId)
             /\ generations' = RemoveAt(generations, i)
             /\ lastOp' = Op("generated", "failed", pendingId)
        ELSE /\ lastOp' = Op("polled", status.status, pendingId)
             /\ UNCHANGED <<mediaLibrary, generations>>
  /\ UNCHANGED <<editorVars, elementVars, exportVars, deletes, uploads,
                 nextMediaId>>

\* ------------------------------------------------ MediaLibrary handlers
\* the delete button of a ready item; a persisted item then awaits Supabase
HandleDelete(j) ==
  /\ j \in 1..Len(mediaLibrary) /\ ~mediaLibrary[j].isPending
  /\ LET item == mediaLibrary[j]
     IN /\ mediaLibrary' = SelectSeq(mediaLibrary, LAMBDA x : x.id # item.id)
        /\ deletes' = IF item.id.prefix = "db" THEN Append(deletes, item)
                      ELSE deletes
        /\ lastOp' = Op("delete", item.id.prefix, item.id)
  /\ UNCHANGED <<editorVars, elementVars, exportVars, generations, uploads,
                 nextMediaId>>

\* the answer of the remote delete: an error (returned or thrown) re-adds
DeleteResponds(i, ok) ==
  /\ i \in 1..Len(deletes)
  /\ mediaLibrary' = IF ok THEN mediaLibrary ELSE Append(mediaLibrary, deletes[i])
  /\ deletes' = RemoveAt(deletes, i)
  /\ lastOp' = Op("deleteResult", IF ok THEN "ok" ELSE "failed", deletes[i].id)
  /\ UNCHANGED <<editorVars, elementVars, exportVars, generations, uploads,
                 nextMediaId>>

\* handleFileUpload up to its first await, with the catalog it closed over
HandleFileUpload ==
  /\ Len(uploads) < MaxUploads
  /\ nextMediaId <= MaxMedia
  /\ uploads' = Append(uploads, [snapshot |-> mediaLibrary,
                                 id |-> MediaId("uploaded", nextMediaId)])
  /\ nextMediaId' = nextMediaId + 1
  /\ lastOp' = Op("upload", "-", MediaId("uploaded", nextMediaId))
  /\ UNCHANGED <<editorVars, elementVars, exportVars, mediaLibrary,
                 generations, deletes>>

\* the rest of handleFileUpload: setMediaLibrary([...mediaLibrary, ...uploadedItems])
UploadEnds(i, ok) ==
  /\ i \in 1..Len(uploads)
  /\ mediaLibrary' = IF ok
                     THEN Append(uploads[i].snapshot, ReadyItem(uploads[i].id, "blob"))
                     ELSE mediaLibrary
  /\ uploads' = RemoveAt(uploads, i)
  /\ lastOp' = Op("uploaded", IF ok THEN "ok" ELSE "failed", uploads[i].id)
  /\ UNCHANGED <<editorVars, elementVars, exportVars, generations, deletes,
                 nextMediaId>>

\* the project is open with the media files loaded from the database
InitCatalog ==
  InitEditor /\ InitOther /\ mediaResponds = TRUE /\ mediaLibrary \in LoadedCatalogs

NextCatalog ==
  \/ HandleSendPrompt
  \/ \E i \in 1..MaxMedia, response \in {"rejected", "jobId", "noJobId"} :
       GenerateContentResponds(i, response)
  \/ \E i \in 1..MaxMedia, run \in JobRuns : PollJobReturns(i, run)
  \/ HandleGenerate
  \/ \E i \in 1..MaxMedia,
        response \in {"rejected", "resultUrl", "jobId", "neither"} :
       GenerateResponds(i, response)
  \/ \E i \in 1..MaxMedia, status \in JobStatuses : PollForCompletionTick(i, status)
  \/ \E j \in 1..(MaxDbFiles + 2 * MaxMedia) : HandleDelete(j)
  \/ \E i \in 1..(MaxDbFiles + MaxMedia), ok \in BOOLEAN : DeleteResponds(i, ok)
  \/ HandleFileUpload
  \/ \E i \in 1..MaxUploads, ok \in BOOLEAN : UploadEnds(i, ok)

SpecCatalog == InitCatalog /\ [][NextCatalog]_vars

\* ------------------------------------------------------ catalog properties
IdsOf(library) == {library[k].id : k \in 1..Len(library)}

\* the step in which a generation job is seen to have succeeded
GenerationSucceeds == lastOp'.op = "generated" /\ lastOp'.kind = "succeeded"

\* the step in which a generation is seen to have failed: the request was
\* rejected, the job reported failed or gave no result URL, or polling ran
\* out of attempts
GenerationFails ==
  \/ lastOp'.op = "generated" /\ lastOp'.kind \in {"failed", "timeout", "noResultUrl"}
  \/ lastOp'.op \in {"generateContent", "generateResponse"} /\ lastOp'.kind = "rejected"

\* C17: when a generation job succeeds, the catalog keeps its length, the
\* entry that carries the pending id becomes a ready item with that same id
\* at the same position, and every other position holds the entry it held
C17_ReplacedInPlace ==
  [][GenerationSucceeds =>
       /\ Len(mediaLibrary') = Len(mediaLibrary)
       /\ \A k \in 1..Len(mediaLibrary) :
            IF mediaLibrary[k].id = lastOp'.arg
            THEN /\ mediaLibrary'[k].id = mediaLibrary[k].id
                 /\ ~mediaLibrary'[k].isPending
                 /\ mediaLibrary'[k].url = "result"
            ELSE mediaLibrary'[k] = mediaLibrary[k]]_vars

\* a job has just succeeded for a placeholder that was not the first entry,
\* and the entry is ready at that position with entries on both sides kept
C17_Witness ==
  /\ lastOp.op = "generated" /\ lastOp.kind = "succeeded"
  /\ \E k \in 2..Len(mediaLibrary) :
       /\ mediaLibrary[k].id = lastOp.arg
       /\ ~mediaLibrary[k].isPending
       /\ mediaLibrary[k - 1].isPending

\* the catalog `after` is `before` without position k
DropsPosition(before, after, k) ==
  /\ Len(after) = Len(before) - 1
  /\ \A j \in 1..Len(after) : after[j] = before[IF j < k THEN j ELSE j + 1]

\* C18: when a generation fails, no entry with the job's pending id is in the
\* catalog afterwards, and all the other entries are there unchanged and in
\* the same order
C18_FailureRemovesPlaceholder ==
  [][GenerationFails =>
       /\ lastOp'.arg \notin IdsOf(mediaLibrary')
       /\ \/ mediaLibrary' = mediaLibrary
          \/ \E k \in 1..Len(mediaLibrary) :
               /\ mediaLibrary[k].id = lastOp'.arg
               /\ DropsPosition(mediaLibrary, mediaLibrary', k)]_vars

\* polling has just run out of attempts while the catalog held other
\* entries, which are all still there
C18_Witness ==
  /\ lastOp.op = "generated" /\ lastOp.kind = "timeout"
  /\ Len(mediaLibrary) >= 2
  /\ \E k \in 1..Len(mediaLibrary) : mediaLibrary[k].isPending
  /\ \E k \in 1..Len(mediaLibrary) : mediaLibrary[k].id.prefix = "db"

\* how many catalog entries carry the id
Occurrences(library, id) ==
  Cardinality({k \in 1..Len(library) : library[k].id = id})

Others(library, id) == SelectSeq(library, LAMBDA x : x.id # id)

\* C19: when the remote delete of a db- item fails, the item is in the
\* catalog afterwards exactly once, with its original id, and the other
\* entries are as they were; when it succeeds the item is not in the catalog
C19_FailedDeleteRestores ==
  [][lastOp'.op = "deleteResult" =>
       IF lastOp'.kind = "failed"
       THEN /\ Occurrences(mediaLibrary', lastOp'.arg) = 1
            /\ lastOp'.arg.prefix = "db"
            /\ Others(mediaLibrary', lastOp'.arg) = Others(mediaLibrary, lastOp'.arg)
       ELSE lastOp'.arg \notin IdsOf(mediaLibrary')]_vars

\* ------------------------------------------- completion of addToTimeline
MaxLiveSteps == 4

\* the media elements of the session may be ones that never fire an event
InitLive ==
  InitEditor /\ InitOther /\ mediaResponds \in BOOLEAN /\ mediaLibrary = <<>>

CountedLive == steps < MaxLiveSteps /\ steps' = steps + 1 /\ UNCHANGED otherVars

\* an event of the browser, not a call of the user
Delivered == UNCHANGED <<steps, otherVars>>

NextLive ==
  \/ \E type \in MediaTypes : CountedLive /\ AddButton(type)
  \/ \E id \in 1..MaxLiveSteps : CountedLive /\ RemoveFromTimeline(id)
  \/ \E i \in 1..MaxLiveSteps, raw \in VideoRawDurations \cup AudioRawDurations :
       Delivered /\ ProbeLoaded(i, raw)
  \/ \E i \in 1..MaxLiveSteps : Delivered /\ ProbeError(i)

\* the probe of some pending call resolves
ProbeSettles ==
  \/ \E i \in 1..MaxLiveSteps, raw \in VideoRawDurations \cup AudioRawDurations :
       Delivered /\ ProbeLoaded(i, raw)
  \/ \E i \in 1..MaxLiveSteps : Delivered /\ ProbeError(i)

\* a media element that responds does fire loadedmetadata or error
SpecLive == InitLive /\ [][NextLive]_vars /\ WF_vars(ProbeSettles)

\* C20: every addToTimeline call eventually completes: whenever calls are
\* waiting for their duration probe, later none is
C20_AddEventuallyCompletes == (pendingAdds # <<>>) ~> (pendingAdds = <<>>)

\* ------------------------------------------------- duration of a new clip
FallbackOf(type) == IF type = "video" THEN VideoFallback ELSE AudioFallback

\* the clip a step has appended to the timeline
NewClip == timelineItems'[Len(timelineItems')]

\* a step of addToTimeline that appends a clip of an image
ImageAdded ==
  /\ lastOp'.op \in {"add", "drop"} /\ lastOp'.kind = "image"
  /\ Len(timelineItems') = Len(timelineItems) + 1

\* C21 as stated: the new clip's duration is the duration the probe read
\* when it read one, else 10 s (video) or 15 s (audio); 5 s for an image
C21_RealDurationOrDefault ==
  [][/\ \A i \in 1..MaxSteps, raw \in VideoRawDurations \cup AudioRawDurations :
          ProbeLoaded(i, raw) =>
            NewClip.duration = IF raw # 0 THEN raw
                               ELSE FallbackOf(pendingAdds[i].type)
     /\ \A i \in 1..MaxSteps :
          ProbeError(i) => NewClip.duration = FallbackOf(pendingAdds[i].type)
     /\ ImageAdded => NewClip.duration = ImageDuration]_vars

\* C21: the new clip's duration is the duration the probe read, rounded to
\* the nearest 0.01 s, when it read one; else 10 s for a video and 15 s for
\* an audio item (probe error or no duration); always 5 s for an image
C21_RoundedDurationOrDefault ==
  [][/\ \A i \in 1..MaxSteps, raw \in VideoRawDurations \cup AudioRawDurations :
          ProbeLoaded(i, raw) =>
            /\ NewClip.type = pendingAdds[i].type
            /\ NewClip.duration = IF raw # 0 THEN RoundTo(raw, Cs)
                                  ELSE FallbackOf(pendingAdds[i].type)
     /\ \A i \in 1..MaxSteps :
          ProbeError(i) => NewClip.duration = FallbackOf(pendingAdds[i].type)
     /\ ImageAdded => NewClip.duration = ImageDuration]_vars

\* the timeline holds a video clip with the rounded probed duration, an audio
\* clip with the audio default and an image clip of 5 s
C21_Witness ==
  /\ \E i \in 1..Len(timelineItems) :
       /\ timelineItems[i].type = "video"
       /\ timelineItems[i].duration = 62 * Sec + 4 * Cs
  /\ \E i \in 1..Len(timelineItems) :
       /\ timelineItems[i].type = "audio"
       /\ timelineItems[i].duration = AudioFallback
  /\ \E i \in 1..Len(timelineItems) :
       /\ timelineItems[i].type = "image"
       /\ timelineItems[i].duration = ImageDuration

\* ---------------------------------------------------- balance of placement
SetMax(S) == CHOOSE x \in S : \A y \in S : y <= x
SetMin(S) == CHOOSE x \in S : \A y \in S : x <= y

\* the occupied end times of the tracks compatible with a kind of media
CompatibleEnds(items, type) ==
  {TrackEndTime(items, t) : t \in Range(AvailableTracks(type))}

\* a step in which addToTimeline has placed a clip
PlaceStep == Len(timelineItems') = Len(timelineItems) + 1

C23_RemovalFrame ==
  [][RemovalStep =>
       LET removed == ItemById(timelineItems, lastOp'.arg)
       IN /\ Len(timelineItems') = Len(timelineItems) - 1
          /\ \A i \in 1..Len(timelineItems) :
               LET c == timelineItems[i]
                   after == ItemById(timelineItems', c.id)
               IN c.id # removed.id =>
                    IF c.track # removed.track
                    THEN after = c
                    ELSE after = [c EXCEPT !.startTime = after.startTime]]_vars

\* a removal has just shifted a clip on its own track while the other track
\* held a clip
C23_Witness ==
  /\ lastOp.op = "remove"
  /\ \E i, j \in 1..Len(timelineItems) :
       /\ timelineItems[i].track = 0 /\ timelineItems[i].startTime = 0
       /\ timelineItems[i].id > 1
       /\ timelineItems[j].track = 1

\* adding and trimming clips of media whose duration is not a multiple of 0.1 s
MaxTrimSteps == 6

\* pointer deltas of a trim drag, with the return to the pointer-down position
TrimDeltaXs == ResizeDeltaXs \cup {0}

CountedTrim == steps < MaxTrimSteps /\ steps' = steps + 1 /\ UNCHANGED otherVars

NextTrim ==
  \/ \E type \in {"video", "image"} : CountedTrim /\ AddButton(type)
  \/ \E i \in 1..MaxTrimSteps, raw \in TrimRawDurations :
       CountedTrim /\ ProbeLoaded(i, raw)
  \/ \E id \in 1..MaxTrimSteps, handle \in {"left", "right"} :
       CountedTrim /\ HandleResizeStart(id, handle)
  \/ \E deltaX \in TrimDeltaXs : CountedTrim /\ ResizeMouseMove(deltaX)
  \/ CountedTrim /\ HandleMouseUp

SpecTrim == Init /\ [][NextTrim]_vars

\* -------------------------------------------------- bound of a right trim
\* a pointer move of a trim drag that holds the right handle of a clip
RightResizeStep ==
  /\ lastOp'.op = "resizeMove" /\ lastOp'.kind = "right" /\ steps' # steps
  /\ ItemById(timelineItems, resizing.itemId) # NoItem

\* C24: after a right-handle resize the end of the trimmed clip is at most
\* the fixed 60 s bound of the trim
C24_RightTrimWithinBound ==
  [][RightResizeStep =>
       EndTime(ItemById(timelineItems', resizing.itemId)) <= TimelineDuration]_vars

\* ------------------------------------------------------------ play toggle
ToggleStep == lastOp'.op = "toggle" /\ steps' # steps

\* C25: a play toggle on a timeline without clips changes neither the playing
\* flag nor the virtual time; with a clip present a toggle from Stopped
\* enters Playing
C25_ToggleEffect ==
  [][ToggleStep =>
       IF Len(timelineItems) = 0
       THEN isPlaying' = isPlaying /\ currentTime' = currentTime
       ELSE ~isPlaying => isPlaying']_vars

\* ======================================================================
\* The media elements of the preview (part_001, seek effects)
\* ======================================================================
MaxMediaSteps == 6

\* a seek effect that runs only while scrubbing
SeekAllowedOnlyScrubbing(scrubbing, playing) == scrubbing

\* if (isScrubbing || !isPlaying)
SeekAllowed(scrubbing, playing) == scrubbing \/ ~playing

\* currentVisualItem?.mediaItem.type === "video", and the same for audio
ElementIsFor(active, kind) == active # NoItem /\ active.type = kind

\* Math.max(0, currentTime - item.startTime)
TimeWithin(time, item) == Max(0, time - item.startTime)

\* The element of one kind after a handler has run and React has re-rendered:
\* seekToTime assigns currentTime through the ref; an element keyed by the
\* clip id is replaced by a fresh one (not ready, at 0) when the active clip
\* is another one; the seek effect runs when one of its dependencies changed.
\* `readNative` is the currentTime the element has when the handler starts.
SyncElement(el, kind, oldActive, newActive, readNative) ==
  LET bySeekToTime == /\ lastOp'.op = "skip"
                      /\ el.clip # 0 /\ ElementIsFor(oldActive, kind)
      handlerNative == IF bySeekToTime THEN TimeWithin(currentTime', oldActive)
                       ELSE readNative
      depsChanged == \/ currentTime' # currentTime
                     \/ newActive # oldActive
                     \/ isScrubbing' # isScrubbing
                     \/ isPlaying' # isPlaying
                     \/ lastOp'.op = "toggle" /\ Len(timelineItems) > 0
      effectWrites == /\ depsChanged
                      /\ SeekAllowed(isScrubbing', isPlaying')
                      /\ el.ready
  IN IF ~ElementIsFor(newActive, kind) THEN NoElement
     ELSE IF newActive.id # el.clip
     THEN [clip |-> newActive.id, ready |-> FALSE, native |-> 0,
           write |-> NoWrite]
     ELSE [clip |-> el.clip, ready |-> el.ready,
           native |-> IF effectWrites THEN TimeWithin(currentTime', newActive)
                      ELSE handlerNative,
           write |-> IF effectWrites THEN TimeWithin(currentTime', newActive)
                     ELSE IF bySeekToTime THEN handlerNative ELSE NoWrite]

\* one handler run of the editor followed by the re-render of the preview;
\* `videoNative` is the currentTime of the video element when the handler runs
MediaStep(videoNative) ==
  /\ steps < MaxMediaSteps /\ steps' = steps + 1
  /\ videoElement' = SyncElement(videoElement, "video", currentVisualItem,
                                 currentVisualItem', videoNative)
  /\ audioElement' = SyncElement(audioElement, "audio", currentAudioItem,
                                 currentAudioItem', audioElement.native)
  /\ UNCHANGED <<mediaResponds, thumbVars, exportVars, catalogVars>>

Rerendered == MediaStep(videoElement.native)

\* the element has loaded its metadata: readyState >= 1 (no handler listens)
LoadedMetadata(kind) ==
  /\ steps < MaxMediaSteps /\ steps' = steps + 1
  /\ IF kind = "video"
     THEN /\ videoElement.clip # 0 /\ ~videoElement.ready
          /\ videoElement' = [videoElement EXCEPT !.ready = TRUE,
                                                  !.write = NoWrite]
          /\ audioElement' = [audioElement EXCEPT !.write = NoWrite]
          /\ lastOp' = Op("loadedmetadata", kind, videoElement.clip)
     ELSE /\ audioElement.clip # 0 /\ ~audioElement.ready
          /\ audioElement' = [audioElement EXCEPT !.ready = TRUE,
                                                  !.write = NoWrite]
          /\ videoElement' = [videoElement EXCEPT !.write = NoWrite]
          /\ lastOp' = Op("loadedmetadata", kind, audioElement.clip)
  /\ UNCHANGED <<rendered, pendingAdds, isScrubbing, resizing, draggingPlayhead,
                 clickTimers, nextId, mediaResponds, thumbVars, exportVars,
                 catalogVars>>

NextMedia ==
  \/ \E type \in MediaTypes : AddButton(type) /\ Rerendered
  \/ \E i \in 1..MaxMediaSteps, raw \in VideoRawDurations \cup AudioRawDurations :
       ProbeLoaded(i, raw) /\ Rerendered
  \/ \E element \in {"handle", "hitArea"} : PlayheadMouseDown(element) /\ Rerendered
  \/ \E pointerX \in PointerXs : PlayheadMouseMove(pointerX) /\ Rerendered
  \/ HandleMouseUp /\ Rerendered
  \/ \E pointerX \in PointerXs : HandleTimelineClick(pointerX) /\ Rerendered
  \/ ScrubTimerFire /\ Rerendered
  \/ TogglePlayback /\ Rerendered
  \/ SkipBackward /\ Rerendered
  \/ SkipForward /\ Rerendered
  \/ \E nativeTime \in NativeTimes : TickVideo(nativeTime) /\ MediaStep(nativeTime)
  \/ TickIncrement /\ Rerendered
  \/ \E kind \in {"video", "audio"} : LoadedMetadata(kind)

SpecMedia == Init /\ [][NextMedia]_vars

\* ---------------------------------------------- seeks of the media elements
\* the element `el` stays mounted for the clip `newActive` over this step, is
\* ready, and the virtual time or the active clip changes
SeekDue(el, kind, oldActive, newActive) ==
  /\ ElementIsFor(newActive, kind)
  /\ el.clip = newActive.id /\ el.ready
  /\ currentTime' # currentTime \/ newActive # oldActive

TickStep100 == lastOp'.op = "tick" /\ steps' # steps

\* the code has assigned the currentTime of the video element in this step
VideoWritten == videoElement'.write # NoWrite

\* the active video clip is another one after the step
VideoClipChanged ==
  /\ ElementIsFor(currentVisualItem', "video")
  /\ currentVisualItem'.id # videoElement.clip

\* C27: while playing and not scrubbing no tick assigns the video element's
\* currentTime, and apart from the explicit seek of a skip button the code
\* assigns it then only when the active clip changes or playback resumes from
\* pause; hence no tick ever assigns the currentTime of the video element
C27_NoWriteBackOnTicks ==
  [][/\ (TickStep100 /\ isPlaying /\ ~isScrubbing) => ~VideoWritten
     /\ (isPlaying' /\ ~isScrubbing' /\ VideoWritten /\ lastOp'.op # "skip")
          => (~isPlaying \/ VideoClipChanged)
     /\ TickStep100 => ~VideoWritten]_vars

\* the video element has just become ready
VideoBecomesReady == lastOp'.op = "loadedmetadata" /\ lastOp'.kind = "video"

\* C28: a seek that was due while the video element was not ready is
\* deferred: when the element becomes ready it is positioned at
\* max(0, virtualTime - clip.startTime)
C28_DeferredSeek ==
  [][VideoBecomesReady =>
       videoElement'.native = TimeWithin(currentTime', currentVisualItem')]_vars

\* ======================================================================
\* Video thumbnails (MediaLibrary.tsx, generateVideoThumbnail)
\* ======================================================================
MaxThumbVideos == 3
maxAttemptsThumb == 5          \* const maxAttempts = 5
SeekPositionCount == 5         \* getSeekPositions returns five positions

VideoItem(n) ==
  [id |-> MediaId("db", n), isPending |-> FALSE, url |-> "file", type |-> "video"]

\* catalogs of persisted videos a project can open with
ThumbCatalogs == {[i \in 1..n |-> VideoItem(i)] : n \in 1..MaxThumbVideos}

ThumbEditorUnchanged == UNCHANGED <<editorVars, mediaResponds, videoElement,
                                    audioElement, exportVars, catalogVars>>

\* the loop goes on to the next item, or ends after the last one
NextThumbJob ==
  IF thumbJob.index < Len(mediaLibrary)
  THEN [pc |-> "fetch", index |-> thumbJob.index + 1, attempt |-> 0]
  ELSE [pc |-> "done", index |-> thumbJob.index, attempt |-> 0]

\* the promise of the current item settles: setVideoThumbnails(... thumbnail)
\* or, in the catch, setVideoThumbnails(... "failed")
ThumbSettles(value, how) ==
  /\ videoThumbnails' =
       videoThumbnails \cup {<<mediaLibrary[thumbJob.index].id, value>>}
  /\ thumbJob' = NextThumbJob
  /\ lastOp' = Op("thumbnail", how, thumbJob.index)
  /\ ThumbEditorUnchanged

\* the effect starts generateThumbnails: the fetch of the first video
StartThumbnails ==
  /\ thumbJob.pc = "idle" /\ Len(mediaLibrary) > 0
  /\ thumbJob' = [pc |-> "fetch", index |-> 1, attempt |-> 0]
  /\ lastOp' = Op("thumbnails", "-", 0)
  /\ UNCHANGED videoThumbnails
  /\ ThumbEditorUnchanged

\* the proxy answers: a response that is not ok throws; with the blob the
\* video element is created and the 15 s timeout is armed
FetchAnswers(ok) ==
  /\ thumbJob.pc = "fetch"
  /\ IF ok
     THEN /\ thumbJob' = [thumbJob EXCEPT !.pc = "metadata"]
          /\ lastOp' = Op("thumbnailFetch", "ok", thumbJob.index)
          /\ UNCHANGED videoThumbnails
          /\ ThumbEditorUnchanged
     ELSE ThumbSettles("failed", "notOk")

\* the proxy never answers this request: no timeout has been armed yet
FetchHangs ==
  /\ thumbJob.pc = "fetch"
  /\ thumbJob' = [thumbJob EXCEPT !.pc = "hung"]
  /\ lastOp' = Op("thumbnailFetch", "never", thumbJob.index)
  /\ UNCHANGED videoThumbnails
  /\ ThumbEditorUnchanged

\* video.onloadedmetadata: attemptCapture() seeks to the first position
ThumbLoadedMetadata ==
  /\ thumbJob.pc = "metadata"
  /\ thumbJob' = [thumbJob EXCEPT !.pc = "seeking"]
  /\ lastOp' = Op("thumbnailMetadata", "-", thumbJob.index)
  /\ UNCHANGED videoThumbnails
  /\ ThumbEditorUnchanged

\* video.onseeked: a black frame tries the next position while there is one;
\* a drawing error tries again while attempts remain
ThumbSeeked(frame) ==
  /\ thumbJob.pc = "seeking"
  /\ IF frame = "black" /\ thumbJob.attempt < SeekPositionCount - 1
     THEN /\ thumbJob' = [thumbJob EXCEPT !.attempt = thumbJob.attempt + 1]
          /\ lastOp' = Op("thumbnailSeeked", frame, thumbJob.index)
          /\ UNCHANGED videoThumbnails
          /\ ThumbEditorUnchanged
     ELSE IF frame = "throws"
     THEN IF thumbJob.attempt + 1 < maxAttemptsThumb
          THEN /\ thumbJob' = [thumbJob EXCEPT !.attempt = thumbJob.attempt + 1]
               /\ lastOp' = Op("thumbnailSeeked", frame, thumbJob.index)
               /\ UNCHANGED videoThumbnails
               /\ ThumbEditorUnchanged
          ELSE ThumbSettles("failed", "throws")
     ELSE ThumbSettles("thumbnail", frame)

\* video.onerror / video.onabort
ThumbVideoError ==
  /\ thumbJob.pc \in {"metadata", "seeking"}
  /\ ThumbSettles("failed", "error")

\* the setTimeout(..., 15000) armed after the blob has arrived
ThumbTimeout ==
  /\ thumbJob.pc \in {"metadata", "seeking"}
  /\ ThumbSettles("failed", "timeout")

InitThumb ==
  InitEditor /\ InitOther /\ mediaResponds = TRUE /\ mediaLibrary \in ThumbCatalogs

NextThumb ==
  \/ StartThumbnails
  \/ \E ok \in BOOLEAN : FetchAnswers(ok)
  \/ FetchHangs
  \/ ThumbLoadedMetadata
  \/ \E frame \in {"good", "black", "throws"} : ThumbSeeked(frame)
  \/ ThumbVideoError
  \/ ThumbTimeout

\* a fetch that is going to be answered is answered
FetchSettles == \E ok \in BOOLEAN : FetchAnswers(ok)

\* the effect runs after the commit, a fetch that does not hang is answered,
\* and an armed timeout fires
SpecThumb ==
  /\ InitThumb /\ [][NextThumb]_vars
  /\ WF_vars(StartThumbnails) /\ WF_vars(FetchSettles) /\ WF_vars(ThumbTimeout)

\* C29: thumbnail generation, once started, comes to its end for every
\* behaviour of the proxy fetch and of the video element: every video gets a
\* thumbnail or the failed placeholder
C29_ThumbnailsEnd ==
  (thumbJob.pc \notin {"idle", "done"}) ~> (thumbJob.pc = "done")

\* ------------------------------------------------- concurrent addToTimeline
\* the step in which an addToTimeline call that awaited its probe adds its clip
ProbedAddCompletes ==
  lastOp'.op = "probe" /\ Len(timelineItems') = Len(timelineItems) + 1

\* C30: the clip of an addToTimeline call that was waiting for its duration
\* probe starts at or after the end of every probed clip (video, audio)
\* already on its track, so the clips of two calls whose probes were in
\* flight together never overlap
C30_NoOverlapOfConcurrentAdds ==
  [][ProbedAddCompletes =>
       \A i \in 1..Len(timelineItems) :
         (timelineItems[i].track = NewClip.track /\ timelineItems[i].type # "image")
           => EndTime(timelineItems[i]) <= NewClip.startTime]_vars

\* ------------------------------------------------ completion of an upload
\* C31: a completed upload only adds the uploaded item: the catalog after it
\* is the catalog before it with the uploaded item put in at one position, so
\* whatever other operations added, resolved or deleted meanwhile is kept
C31_UploadOnlyAdds ==
  [][(lastOp'.op = "uploaded" /\ lastOp'.kind = "ok") =>
       \E k \in 1..Len(mediaLibrary') :
         /\ mediaLibrary'[k] = ReadyItem(lastOp'.arg, "blob")
         /\ DropsPosition(mediaLibrary', mediaLibrary, k)]_vars

\* ------------------------------------------- settling of pending items
\* the generation flows alone
NextPending ==
  \/ HandleSendPrompt
  \/ \E i \in 1..MaxMedia, response \in {"rejected", "jobId", "noJobId"} :
       GenerateContentResponds(i, response)
  \/ \E i \in 1..MaxMedia, run \in JobRuns : PollJobReturns(i, run)
  \/ HandleGenerate
  \/ \E i \in 1..MaxMedia,
        response \in {"rejected", "resultUrl", "jobId", "neither"} :
       GenerateResponds(i, response)
  \/ \E i \in 1..MaxMedia, status \in JobStatuses : PollForCompletionTick(i, status)

\* jobs whose first status check already reports the end
PromptRuns == {run \in JobRuns : run.k = 0 /\ run.then # Processing}

\* the request in flight at position i gets its next answer: the response of
\* generateContent, the return of pollJobUntilComplete, or a run of the 5 s
\* interval of pollForCompletion. pollJobUntilComplete returns for every
\* job, so its return is named here by the jobs that end at the first check:
\* that step is enabled exactly when a return of any job is, and a return of
\* any job disables it
GenerationSettles(i) ==
  \/ \E response \in {"rejected", "jobId", "noJobId"} :
       GenerateContentResponds(i, response)
  \/ \E run \in PromptRuns : PollJobReturns(i, run)
  \/ \E response \in {"rejected", "resultUrl", "jobId", "neither"} :
       GenerateResponds(i, response)
  \/ \E status \in JobStatuses : PollForCompletionTick(i, status)

\* the server answers every request and the interval keeps firing
SpecPending ==
  /\ InitCatalog /\ [][NextPending]_vars
  /\ \A i \in 1..MaxMedia : WF_vars(GenerationSettles(i))

IsPendingIn(library, id) ==
  \E k \in 1..Len(library) : library[k].id = id /\ library[k].isPending

\* C32: every pending catalog item is eventually replaced by a ready item or
\* removed: whenever the catalog holds a pending entry with some id, later it
\* holds no pending entry with that id
C32_PendingEventuallySettles ==
  \A n \in 1..MaxMedia :
    IsPendingIn(mediaLibrary, MediaId("pending", n))
      ~> ~IsPendingIn(mediaLibrary, MediaId("pending", n))

\* ----------------------------------------------- playing needs a clip
\* C33: in every reachable state, if the playing flag is true the timeline
\* holds at least one clip
C33_PlayingHasClip == isPlaying => Len(timelineItems) > 0

\* ------------------------------------------- a playhead drag is a scrub
\* C34: in every reachable state in which a playhead drag is in progress the
\* scrubbing flag is true
C34_DragImpliesScrubbing == draggingPlayhead => isScrubbing

\* ------------------------------------------------------ left-handle trim
\* a pointer move of a left-handle drag whose clip is on the timeline
LeftResizeStep ==
  /\ lastOp'.op = "resizeMove" /\ lastOp'.kind = "left"
  /\ ItemById(timelineItems, resizing.itemId) # NoItem

\* C35: a left-handle resize keeps the clip's end fixed: after every pointer
\* move the clip's startTime + duration is the end the clip had when the drag
\* began, up to the rounding to 0.1 s
C35_LeftTrimKeepsEnd ==
  [][LeftResizeStep =>
       Abs(EndTime(ItemById(timelineItems', resizing.itemId))
           - (resizing.originalStartTime + resizing.originalDuration))
         <= Tenth]_vars

\* ------------------------------------------- a trim is a function of the drag
\* a pointer move of a trim drag whose clip is on the timeline
ResizeMoveStep ==
  /\ lastOp'.op = "resizeMove"
  /\ ItemById(timelineItems, resizing.itemId) # NoItem

\* C36: the values a resize drag commits depend only on the startTime and
\* duration captured at pointer-down and on the current pointer delta: every
\* pointer move gives the dragged clip the values computed from the captured
\* ones and the delta, whatever the clip held before the move; a move back to
\* delta 0 gives it the captured values; and every other clip is unchanged
C36_TrimDependsOnCapture ==
  [][ResizeMoveStep =>
       LET dragged == ItemById(timelineItems', resizing.itemId)
           updates == ResizeUpdates(resizing, lastOp'.arg)
       IN /\ dragged.startTime = updates.startTime
          /\ dragged.duration = updates.duration
          /\ lastOp'.arg = 0 =>
               /\ dragged.startTime = resizing.originalStartTime
               /\ dragged.duration = resizing.originalDuration
          /\ Len(timelineItems') = Len(timelineItems)
          /\ \A i \in 1..Len(timelineItems) :
               timelineItems[i].id # resizing.itemId =>
                 timelineItems'[i] = timelineItems[i]]_vars

\* ------------------------------------------------- every export ends
\* the export in flight at position i gets its next answer: the response to
\* POST compose-video, the response to a status check, or the end of the 5 s
\* wait of the poll loop
ExportSettles(i) ==
  \/ \E response \in ComposeResponses : ComposeResponds(i, response)
  \/ \E status \in StatusResponses, serverError \in ServerErrors :
       StatusResponds(i, status, serverError)
  \/ PollTimerFires(i)

\* the server answers every request and every timer fires
SpecExportLive ==
  /\ Init /\ [][NextExport]_vars
  /\ \A i \in 1..MaxExports : WF_vars(ExportSettles(i))

\* C37: every export that is started eventually ends with the
\* export-in-progress flag cleared: whenever an export is in flight, later
\* none is and isDownloading is false
C37_ExportEventuallyEnds ==
  (exports # <<>>) ~> (exports = <<>> /\ ~isDownloading)

\* an export has just ended on a failed job after the status endpoint had
\* answered processing at least once, and the flag is cleared
C37_Witness ==
  /\ lastOp.op = "status" /\ lastOp.kind = "failed"
  /\ exportLog.checks >= 2
  /\ exports = <<>>
  /\ ~isDownloading

\* ------------------------------------ pollJobUntilComplete, check by check
\* the status endpoint may report anything at each check
\* a loop test that allows a 61st check
JobPollAgainInclusive(attempts) == attempts <= maxAttemptsJob

\* while (attempts < maxAttempts)
JobPollAgain(attempts) == attempts < maxAttemptsJob

\* the loop test, and the return after the loop when it fails
JobLoopTest(job) ==
  IF JobPollAgain(job.attempts)
  THEN [job EXCEPT !.pc = "check"]
  ELSE [job EXCEPT !.pc = "returned",
                   !.result = [success |-> FALSE, result_url |-> "",
                               error |-> "Generation timed out"]]

\* the call of pollJobUntilComplete; checks and processing count the calls
\* of checkJobStatus and those of them that reported processing
StartPollJob ==
  /\ generations = <<>>
  /\ generations' =
       <<JobLoopTest([flow |-> "pollJob", pc |-> "check", attempts |-> 0,
                      checks |-> 0, processing |-> 0, last |-> Processing,
                      result |-> [success |-> FALSE, result_url |-> "",
                                  error |-> ""]])>>
  /\ lastOp' = Op("pollJob", "-", 0)
  /\ UNCHANGED <<editorVars, elementVars, exportVars, mediaLibrary, deletes,
                 uploads, nextMediaId>>

\* one pass of the loop body up to its return or its 5 s wait
CheckJobStatus(status) ==
  /\ Len(generations) = 1
  /\ generations[1].flow = "pollJob" /\ generations[1].pc = "check"
  /\ LET job == [generations[1] EXCEPT
                   !.checks = @ + 1,
                   !.processing = IF status.status = "processing"
                                  THEN @ + 1 ELSE @,
                   !.last = status]
     IN generations' =
          << IF status.status = "succeeded"
             THEN [job EXCEPT !.pc = "returned",
                              !.result = [success |-> TRUE,
                                          result_url |-> status.result_url,
                                          error |-> ""]]
             ELSE IF status.status = "failed"
             THEN [job EXCEPT !.pc = "returned",
                              !.result = [success |-> FALSE, result_url |-> "",
                                          error |-> IF status.error # ""
                                                    THEN status.error
                                                    ELSE "Generation failed"]]
             ELSE [job EXCEPT !.pc = "sleep"] >>
  /\ lastOp' = Op("checkJobStatus", status.status, 0)
  /\ UNCHANGED <<editorVars, elementVars, exportVars, mediaLibrary, deletes,
                 uploads, nextMediaId>>

\* the 5 s wait is over: attempts++ and the loop test
PollSleepEnds ==
  /\ Len(generations) = 1
  /\ generations[1].flow = "pollJob" /\ generations[1].pc = "sleep"
  /\ generations' = <<JobLoopTest([generations[1] EXCEPT !.attempts = @ + 1])>>
  /\ lastOp' = Op("pollSleep", "-", 0)
  /\ UNCHANGED <<editorVars, elementVars, exportVars, mediaLibrary, deletes,
                 uploads, nextMediaId>>

NextPollJob ==
  \/ StartPollJob
  \/ \E status \in JobStatuses : CheckJobStatus(status)
  \/ PollSleepEnds

\* checkJobStatus settles (it catches its own errors) and the timer fires
PollJobAdvances == (\E status \in JobStatuses : CheckJobStatus(status)) \/ PollSleepEnds

SpecPollJob == Init /\ [][NextPollJob]_vars /\ WF_vars(PollJobAdvances)

PollJobCalls == {i \in 1..Len(generations) : generations[i].flow = "pollJob"}

\* what a returned call must have returned, given the checks it made
PollJobOutcome(job) ==
  /\ job.result.success <=> job.last.status = "succeeded"
  /\ job.last.status = "succeeded" => job.result.result_url = job.last.result_url
  /\ job.last.status = "failed" =>
       job.result.error = (IF job.last.error # "" THEN job.last.error
                           ELSE "Generation failed")
  /\ job.last.status = "processing" =>
       job.checks = 60 /\ job.result.error = "Generation timed out"
  /\ job.checks = job.processing + (IF job.last.status = "processing" THEN 0 ELSE 1)
  /\ job.result = PollJobUntilComplete([k |-> job.processing, then |-> job.last], 0)

\* C38: pollJobUntilComplete always returns, after at most 60 status checks:
\* with success exactly when its last check reported succeeded, with the
\* failure of the first check that reported failed, and with the timeout
\* failure when all 60 checks reported processing; every check before the
\* last one reported processing, so the first other report decides
C38_PollJobReturns ==
  /\ [](\A i \in PollJobCalls :
          /\ generations[i].checks <= 60
          /\ generations[i].pc = "returned" => PollJobOutcome(generations[i]))
  /\ (PollJobCalls # {}) ~>
       (\A i \in PollJobCalls : generations[i].pc = "returned")

\* a call has returned the timeout failure after 60 checks
C38_Witness ==
  /\ PollJobCalls # {}
  /\ \A i \in PollJobCalls :
       /\ generations[i].pc = "returned"
       /\ generations[i].checks = 60
       /\ generations[i].result.error = "Generation timed out"

====
